---- MODULE Spec2Model ----
(***************************************************************************)
(* nexus-upload-debs (src/src/index.js): one run of the action.  The run   *)
(* lists the repository's components page by page, then reconciles every   *)
(* local .deb file against that list (delete stale matches, upload when no *)
(* match has the file's SHA256) and finally starts the apt metadata        *)
(* rebuild task when a component was deleted.  Every await on the registry *)
(* or on the file system is one step; its outcome is chosen by the         *)
(* environment.                                                            *)
(***************************************************************************)
EXTENDS Integers, Sequences, FiniteSets, TLC

\* ---------------------------------------------------------------- bounds
MaxFiles == 2
MaxRecords == 2
MaxFailures == 2

\* ------------------------------------------------------------- constants
NoContent == 204
OK == 200
ServerError == 500
Statuses == {NoContent, OK, ServerError}

Sentinel == "-"
Absent == ""
NoToken == 0
RebuildType == "repository.apt.rebuild.metadata"

\* ------------------------------------------------------------ input sets
\* One entry of the target directory (or the single target file): a .deb
\* file with what getDebInfoWithDpkg / extractInfoFromFilename yield for it
\* and the SHA256 of its bytes.
DebEntries ==
  { [deb |-> TRUE, name |-> "foo", group |-> g, version |-> v, sha256 |-> s] :
      g \in {"amd64"}, v \in {"1.0", Sentinel}, s \in {"a", "b"} }

OtherEntry ==
  [deb |-> FALSE, name |-> "readme", group |-> Sentinel, version |-> Sentinel,
   sha256 |-> "a"]

Entries == DebEntries \cup {OtherEntry}

\* What the registry can hold for one component, before it gets an id:
\* group, version and checksum may be missing from the JSON.
ItemKinds ==
  { [name |-> "foo", group |-> "amd64", version |-> "1.0", sha256 |-> "a"],
    [name |-> "foo", group |-> Absent, version |-> Absent, sha256 |-> Absent],
    [name |-> "bar", group |-> "amd64", version |-> "1.0", sha256 |-> "b"] }

RECURSIVE SeqsUpTo(_, _)
SeqsUpTo(S, n) ==
  IF n = 0 THEN { <<>> }
  ELSE LET shorter == SeqsUpTo(S, n - 1)
       IN  shorter \cup { Append(q, x) : q \in { p \in shorter : Len(p) = n - 1 }, x \in S }

\* The listings readdirAsync can return: up to MaxFiles entries, .deb files
\* and possibly another file before them.
Directories ==
  SeqsUpTo(DebEntries, MaxFiles)
    \cup { << OtherEntry >> \o q : q \in SeqsUpTo(DebEntries, MaxFiles - 1) }

WithIds(kinds) ==
  [ k \in 1..Len(kinds) |->
      [id |-> k, name |-> kinds[k].name, group |-> kinds[k].group,
       version |-> kinds[k].version, sha256 |-> kinds[k].sha256] ]

RECURSIVE Chunk(_, _)
Chunk(items, size) ==
  IF Len(items) <= size THEN << items >>
  ELSE << SubSeq(items, 1, size) >> \o Chunk(SubSeq(items, size + 1, Len(items)), size)

RECURSIVE Flatten(_)
Flatten(pages) ==
  IF pages = <<>> THEN <<>> ELSE Head(pages) \o Flatten(Tail(pages))

Range(q) == { q[k] : k \in 1..Len(q) }

VARIABLES
  uploadPath,           \* what statAsync finds at the 'path' input
  entries,              \* the directory's entries, or the single target file
  serverPages,          \* the pages the registry serves for the repository
  registry,             \* the components the registry holds now
  pc,                   \* where run() stands
  continuationToken,    \* getComponents: the cursor of the last response
  components,           \* getComponents: the accumulated list / run: the snapshot
  fileIdx,              \* run: index into debFiles of the file being processed
  compIdx,              \* processSingleFile: index of the next comp of the for loop
  needUpload,           \* processSingleFile: needUpload
  hasDeletedComponent,  \* the module-level flag
  calls,                \* every HTTP request issued so far, in order
  rebuilds,             \* number of invocations of runRebuildAptMetadata
  setFailed,            \* core.setFailed was called
  resultSet             \* core.setOutput('result', ...) was called

vars == << uploadPath, entries, serverPages, registry, pc,
           continuationToken, components, fileIdx, compIdx, needUpload,
           hasDeletedComponent, calls, rebuilds, setFailed, resultSet >>

inputs == << uploadPath, entries, serverPages >>

\* ------------------------------------------------------- pure functions
\* file.toLowerCase().endsWith('.deb')
EndsWithDeb(e) == e.deb

\* run: the files handed to processSingleFile, in order
DebFilesUnfiltered == entries

DebFiles ==
  IF uploadPath = "directory" THEN SelectSeq(entries, EndsWithDeb) ELSE entries

\* getComponents: item -> {id, name, group, version, sha256}
OrSentinel(v) == IF v = Absent THEN Sentinel ELSE v

ConvertItem(item) ==
  [id |-> item.id, name |-> item.name, group |-> OrSentinel(item.group),
   version |-> OrSentinel(item.version), sha256 |-> OrSentinel(item.sha256)]

ConvertItems(items) == [ k \in 1..Len(items) |-> ConvertItem(items[k]) ]

\* getComponents: the page's items are pushed onto the list kept across pages
PushItemsOntoFreshList(acc, items) == ConvertItems(items)

PushItems(acc, items) == acc \o ConvertItems(items)

\* processSingleFile: the condition of the if inside the for loop
MatchesWithoutName(comp, fileInfo) ==
  /\ (comp.group = fileInfo.group \/ comp.group = Sentinel \/ fileInfo.group = Sentinel)
  /\ (comp.version = fileInfo.version \/ comp.version = Sentinel
        \/ fileInfo.version = Sentinel)

MatchesRecordWildcardOnly(comp, fileInfo) ==
  /\ comp.name = fileInfo.name
  /\ (comp.group = fileInfo.group \/ comp.group = Sentinel)
  /\ (comp.version = fileInfo.version \/ comp.version = Sentinel)

Matches(comp, fileInfo) ==
  /\ comp.name = fileInfo.name
  /\ (comp.group = fileInfo.group \/ comp.group = Sentinel \/ fileInfo.group = Sentinel)
  /\ (comp.version = fileInfo.version \/ comp.version = Sentinel
        \/ fileInfo.version = Sentinel)

\* processSingleFile: comp.sha256 === fileSha256
ShaMatchesVersion(comp, file) == comp.sha256 = file.version

ShaMatchesNever(comp, file) == FALSE

ShaMatches(comp, file) == comp.sha256 = file.sha256

\* deleteComponent / uploadComponent / run task: response.status === 204
IsSuccess(status) == status = NoContent

\* axios rejects a response whose status is outside 2xx
AxiosThrows(status) == status >= 300

\* getComponents: axios.get rejects, or the response has no body to read
\* items from
ListThrows(status) == AxiosThrows(status) \/ status = NoContent

\* the registry's answer to a list request carrying cursor tok
PageOf(tok) == IF tok = NoToken THEN 1 ELSE tok
NextToken(tok) == IF PageOf(tok) < Len(serverPages) THEN PageOf(tok) + 1 ELSE NoToken

\* the task lists GET /tasks can answer with, by the tasks' types
TaskLists == { <<>>, << "repository.cleanup" >>, << "repository.cleanup", RebuildType >> }

\* runRebuildAptMetadata: items.find(item => item.type === '...') found one
HasRebuildTask(taskTypes) == \E k \in 1..Len(taskTypes) : taskTypes[k] = RebuildType

Call(op, file, arg, ok) == [op |-> op, file |-> file, arg |-> arg, ok |-> ok]

\* the statuses the registry may answer the next request with: after
\* MaxFailures failed requests the registry answers as the request expects
Failures == Cardinality({ k \in 1..Len(calls) : ~calls[k].ok })

Responses(success) == IF Failures < MaxFailures THEN Statuses ELSE {success}

\* deleteComponent: what axios.delete can come back with; the registry
\* answers 204 only for a component it still holds
DeleteResponses(id) ==
  IF id \in { c.id : c \in registry }
  THEN Responses(NoContent)
  ELSE Statuses \ {NoContent}

\* ------------------------------------------------------------------ Init
Init ==
  /\ uploadPath \in {"file", "directory", "other", "missing"}
  /\ entries \in Directories \cup { << e >> : e \in Entries }
  /\ uploadPath = "file" => entries \in { << e >> : e \in Entries }
  /\ uploadPath = "directory" => entries \in Directories
  /\ uploadPath \in {"other", "missing"} => entries = <<>>
  /\ \E kinds \in SeqsUpTo(ItemKinds, MaxRecords) :
       /\ serverPages \in { Chunk(WithIds(kinds), size) : size \in {1, MaxRecords} }
       /\ registry = Range(WithIds(kinds))
  /\ pc = "getComponents"
  /\ continuationToken = NoToken
  /\ components = <<>>
  /\ fileIdx = 0
  /\ compIdx = 0
  /\ needUpload = FALSE
  /\ hasDeletedComponent = FALSE
  /\ calls = <<>>
  /\ rebuilds = 0
  /\ setFailed = FALSE
  /\ resultSet = FALSE

\* --------------------------------------------------------------- actions
\* run: catch (error) { core.setFailed(error.message) }
FailWithoutReturn ==
  /\ setFailed' = TRUE
  /\ pc' = "finish"

Fail ==
  /\ setFailed' = TRUE
  /\ pc' = "done"

\* getComponents: one iteration of the do-while loop
GetComponentsPageReturnsOnError ==
  /\ pc = "getComponents"
  /\ \E status \in Responses(OK) :
       /\ calls' = Append(calls, Call("list", 0, continuationToken, ~ListThrows(status)))
       /\ IF ListThrows(status)
          THEN /\ pc' = "stat"
               /\ UNCHANGED << continuationToken, components, setFailed >>
          ELSE /\ components' = PushItems(components, serverPages[PageOf(continuationToken)])
               /\ continuationToken' = NextToken(continuationToken)
               /\ pc' = IF NextToken(continuationToken) # NoToken
                        THEN "getComponents" ELSE "stat"
               /\ UNCHANGED setFailed
  /\ UNCHANGED << inputs, registry, fileIdx, compIdx, needUpload,
                  hasDeletedComponent, rebuilds, resultSet >>

GetComponentsPage ==
  /\ pc = "getComponents"
  /\ \E status \in Responses(OK) :
       /\ calls' = Append(calls, Call("list", 0, continuationToken, ~ListThrows(status)))
       /\ IF ListThrows(status)
          THEN /\ Fail
               /\ UNCHANGED << continuationToken, components >>
          ELSE /\ components' = PushItems(components, serverPages[PageOf(continuationToken)])
               /\ continuationToken' = NextToken(continuationToken)
               /\ pc' = IF NextToken(continuationToken) # NoToken
                        THEN "getComponents" ELSE "stat"
               /\ UNCHANGED setFailed
  /\ UNCHANGED << inputs, registry, fileIdx, compIdx, needUpload,
                  hasDeletedComponent, rebuilds, resultSet >>

\* run: statAsync(uploadPath) and the branch on what it found
StatPath ==
  /\ pc = "stat"
  /\ IF uploadPath = "missing" THEN
       Fail /\ UNCHANGED fileIdx
     ELSE IF uploadPath = "file" THEN
       IF EndsWithDeb(entries[1])
       THEN fileIdx' = 1 /\ pc' = "readFile" /\ UNCHANGED setFailed
       ELSE Fail /\ UNCHANGED fileIdx
     ELSE IF uploadPath = "directory" THEN
       IF DebFiles # <<>>
       THEN fileIdx' = 1 /\ pc' = "readFile" /\ UNCHANGED setFailed
       ELSE pc' = "finish" /\ UNCHANGED << fileIdx, setFailed >>
     ELSE
       Fail /\ UNCHANGED fileIdx
  /\ UNCHANGED << inputs, registry, continuationToken, components, compIdx,
                  needUpload, hasDeletedComponent, calls, rebuilds, resultSet >>

\* processSingleFile up to 'let needUpload = true': the file is resolved,
\* inspected and read; readFileAsync may throw
ReadFile ==
  /\ pc = "readFile"
  /\ \E readable \in BOOLEAN :
       IF readable
       THEN /\ needUpload' = TRUE
            /\ compIdx' = 1
            /\ pc' = "scan"
            /\ UNCHANGED setFailed
       ELSE /\ Fail
            /\ UNCHANGED << needUpload, compIdx >>
  /\ UNCHANGED << inputs, registry, continuationToken, components, fileIdx,
                  hasDeletedComponent, calls, rebuilds, resultSet >>

\* deleteComponent: what the DELETE does to the registry and to the flag
DeleteComponentKeepsFlag(id, status) ==
  /\ calls' = Append(calls, Call("delete", fileIdx, id, IsSuccess(status)))
  /\ hasDeletedComponent' = hasDeletedComponent
  /\ registry' = IF IsSuccess(status) THEN { c \in registry : c.id # id } ELSE registry

DeleteComponentFlagsAnyResponse(id, status) ==
  /\ calls' = Append(calls, Call("delete", fileIdx, id, IsSuccess(status)))
  /\ hasDeletedComponent' = TRUE
  /\ registry' = IF IsSuccess(status) THEN { c \in registry : c.id # id } ELSE registry

DeleteComponent(id, status) ==
  /\ calls' = Append(calls, Call("delete", fileIdx, id, IsSuccess(status)))
  /\ hasDeletedComponent' = (hasDeletedComponent \/ IsSuccess(status))
  /\ registry' = IF IsSuccess(status) THEN { c \in registry : c.id # id } ELSE registry

\* processSingleFile: one iteration of 'for (const comp of components)'
ScanComponentLastMatchDecides ==
  /\ pc = "scan"
  /\ compIdx <= Len(components)
  /\ LET comp == components[compIdx]
         file == DebFiles[fileIdx]
     IN  IF Matches(comp, file)
         THEN IF ShaMatches(comp, file)
              THEN /\ needUpload' = FALSE
                   /\ UNCHANGED << calls, hasDeletedComponent, registry >>
              ELSE /\ \E status \in DeleteResponses(comp.id) :
                        DeleteComponent(comp.id, status)
                   /\ needUpload' = TRUE
         ELSE UNCHANGED << needUpload, calls, hasDeletedComponent, registry >>
  /\ compIdx' = compIdx + 1
  /\ UNCHANGED << inputs, pc, continuationToken, components, fileIdx,
                  rebuilds, setFailed, resultSet >>

ScanComponent ==
  /\ pc = "scan"
  /\ compIdx <= Len(components)
  /\ LET comp == components[compIdx]
         file == DebFiles[fileIdx]
     IN  IF Matches(comp, file)
         THEN IF ShaMatches(comp, file)
              THEN /\ needUpload' = FALSE
                   /\ UNCHANGED << calls, hasDeletedComponent, registry >>
              ELSE /\ \E status \in DeleteResponses(comp.id) :
                        DeleteComponent(comp.id, status)
                   /\ UNCHANGED needUpload
         ELSE UNCHANGED << needUpload, calls, hasDeletedComponent, registry >>
  /\ compIdx' = compIdx + 1
  /\ UNCHANGED << inputs, pc, continuationToken, components, fileIdx,
                  rebuilds, setFailed, resultSet >>

\* run: the next iteration of 'for (const file of debFiles)', or the end of it
NextFile ==
  IF fileIdx < Len(DebFiles)
  THEN fileIdx' = fileIdx + 1 /\ pc' = "readFile"
  ELSE pc' = "finish" /\ UNCHANGED fileIdx

\* processSingleFile: 'if (needUpload)' after the for loop
EndScanThrowsAfterFailedDelete ==
  /\ pc = "scan"
  /\ compIdx > Len(components)
  /\ IF \E k \in 1..Len(calls) :
          calls[k].op = "delete" /\ calls[k].file = fileIdx /\ ~calls[k].ok
     THEN Fail /\ UNCHANGED fileIdx
     ELSE /\ IF needUpload
             THEN pc' = "upload" /\ UNCHANGED fileIdx
             ELSE NextFile
          /\ UNCHANGED setFailed
  /\ UNCHANGED << inputs, registry, continuationToken, components, compIdx,
                  needUpload, hasDeletedComponent, calls, rebuilds, resultSet >>

EndScan ==
  /\ pc = "scan"
  /\ compIdx > Len(components)
  /\ IF needUpload
     THEN pc' = "upload" /\ UNCHANGED fileIdx
     ELSE NextFile
  /\ UNCHANGED << inputs, registry, continuationToken, components, compIdx,
                  needUpload, hasDeletedComponent, calls, rebuilds, setFailed,
                  resultSet >>

\* the component the registry stores for an uploaded file
Uploaded(file) ==
  [id |-> Len(Flatten(serverPages)) + fileIdx, name |-> file.name,
   group |-> file.group, version |-> file.version, sha256 |-> file.sha256]

\* uploadComponent, and processSingleFile's use of it
UploadComponentRetries ==
  /\ pc = "upload"
  /\ \E status \in Responses(NoContent) :
       /\ calls' = Append(calls, Call("upload", fileIdx, 0, IsSuccess(status)))
       /\ registry' = IF IsSuccess(status)
                      THEN registry \cup {Uploaded(DebFiles[fileIdx])}
                      ELSE registry
       /\ IF IsSuccess(status)
          THEN NextFile
          ELSE UNCHANGED << pc, fileIdx >>
  /\ UNCHANGED << inputs, continuationToken, components, compIdx, needUpload,
                  hasDeletedComponent, rebuilds, setFailed, resultSet >>

UploadComponentUpdatesSnapshot ==
  /\ pc = "upload"
  /\ \E status \in Responses(NoContent) :
       /\ calls' = Append(calls, Call("upload", fileIdx, 0, IsSuccess(status)))
       /\ registry' = IF IsSuccess(status)
                      THEN registry \cup {Uploaded(DebFiles[fileIdx])}
                      ELSE registry
       /\ components' = IF IsSuccess(status)
                        THEN Append(components, ConvertItem(Uploaded(DebFiles[fileIdx])))
                        ELSE components
  /\ NextFile
  /\ UNCHANGED << inputs, continuationToken, compIdx, needUpload,
                  hasDeletedComponent, rebuilds, setFailed, resultSet >>

UploadComponent ==
  /\ pc = "upload"
  /\ \E status \in Responses(NoContent) :
       /\ calls' = Append(calls, Call("upload", fileIdx, 0, IsSuccess(status)))
       /\ registry' = IF IsSuccess(status)
                      THEN registry \cup {Uploaded(DebFiles[fileIdx])}
                      ELSE registry
  /\ NextFile
  /\ UNCHANGED << inputs, continuationToken, components, compIdx, needUpload,
                  hasDeletedComponent, rebuilds, setFailed, resultSet >>

\* run: core.setOutput('result', ...)
SetOutput ==
  /\ resultSet' = TRUE
  /\ pc' = "done"

\* run: 'if (hasDeletedComponent)' after the files
FinishAlwaysRebuilds ==
  /\ pc = "finish"
  /\ rebuilds' = rebuilds + 1
  /\ pc' = "tasks"
  /\ UNCHANGED << inputs, registry, continuationToken, components, fileIdx,
                  compIdx, needUpload, hasDeletedComponent, calls, setFailed,
                  resultSet >>

Finish ==
  /\ pc = "finish"
  /\ IF hasDeletedComponent
     THEN /\ rebuilds' = rebuilds + 1
          /\ pc' = "tasks"
          /\ UNCHANGED resultSet
     ELSE /\ SetOutput
          /\ UNCHANGED rebuilds
  /\ UNCHANGED << inputs, registry, continuationToken, components, fileIdx,
                  compIdx, needUpload, hasDeletedComponent, calls, setFailed >>

\* runRebuildAptMetadata: GET /tasks and the search for the rebuild task
GetTasksRethrows ==
  /\ pc = "tasks"
  /\ \E status \in Responses(OK), taskTypes \in TaskLists :
       /\ calls' = Append(calls, Call("tasks", 0, 0, status = OK))
       /\ IF AxiosThrows(status)
          THEN Fail /\ UNCHANGED resultSet
          ELSE /\ IF status = OK /\ HasRebuildTask(taskTypes)
                  THEN pc' = "runTask" /\ UNCHANGED resultSet
                  ELSE SetOutput
               /\ UNCHANGED setFailed
  /\ UNCHANGED << inputs, registry, continuationToken, components, fileIdx,
                  compIdx, needUpload, hasDeletedComponent, rebuilds >>

GetTasks ==
  /\ pc = "tasks"
  /\ \E status \in Responses(OK), taskTypes \in TaskLists :
       /\ calls' = Append(calls, Call("tasks", 0, 0, status = OK))
       /\ IF ~AxiosThrows(status) /\ status = OK /\ HasRebuildTask(taskTypes)
          THEN pc' = "runTask" /\ UNCHANGED resultSet
          ELSE SetOutput
  /\ UNCHANGED << inputs, registry, continuationToken, components, fileIdx,
                  compIdx, needUpload, hasDeletedComponent, rebuilds, setFailed >>

\* runRebuildAptMetadata: POST /tasks/{id}/run
RunTask ==
  /\ pc = "runTask"
  /\ \E status \in Responses(NoContent) :
       calls' = Append(calls, Call("run", 0, 0, IsSuccess(status)))
  /\ SetOutput
  /\ UNCHANGED << inputs, registry, continuationToken, components, fileIdx,
                  compIdx, needUpload, hasDeletedComponent, rebuilds, setFailed >>

Next ==
  \/ GetComponentsPage
  \/ StatPath
  \/ ReadFile
  \/ ScanComponent
  \/ EndScan
  \/ UploadComponent
  \/ Finish
  \/ GetTasks
  \/ RunTask

Spec == Init /\ [][Next]_vars

\* run under the event loop: every awaited call returns and the function
\* resumes after it, so a step that is possible is eventually taken
FairSpec == Init /\ [][Next]_vars /\ WF_vars(Next)

\* ------------------------------------------ one file against one record
\* processSingleFile at its for loop, for a one-page listing of one item and
\* a single target file, over every combination of names, groups and
\* versions.
MatchNames == {"foo", "bar"}
MatchGroups == {"amd64", "arm64"}
MatchVersions == {"1.0", "2.0"}

InitMatch ==
  /\ uploadPath = "file"
  /\ \E n \in MatchNames, g \in MatchGroups \cup {Sentinel},
        v \in MatchVersions \cup {Sentinel} :
       entries = << [deb |-> TRUE, name |-> n, group |-> g, version |-> v,
                     sha256 |-> "a"] >>
  /\ \E n \in MatchNames, g \in MatchGroups \cup {Absent},
        v \in MatchVersions \cup {Absent}, s \in {"a", "b", Absent} :
       LET items == WithIds(<< [name |-> n, group |-> g, version |-> v,
                                sha256 |-> s] >>)
       IN  /\ serverPages = << items >>
           /\ registry = Range(items)
           /\ components = PushItems(<<>>, items)
  /\ pc = "scan"
  /\ continuationToken = NoToken
  /\ fileIdx = 1
  /\ compIdx = 1
  /\ needUpload = TRUE
  /\ hasDeletedComponent = FALSE
  /\ calls = << Call("list", 0, NoToken, TRUE) >>
  /\ rebuilds = 0
  /\ setFailed = FALSE
  /\ resultSet = FALSE

NextMatch ==
  \/ ScanComponent
  \/ EndScan

SpecMatch == InitMatch /\ [][NextMatch]_vars

TypeOK ==
  /\ pc \in {"getComponents", "stat", "readFile", "scan", "upload", "finish",
             "tasks", "runTask", "done"}
  /\ fileIdx \in 0..Len(DebFiles)
  /\ rebuilds \in 0..1

\* ------------------------------------------- the run's history, for claims
\* the matching rule as the specification words it
RecordMatches(r, d) ==
  /\ r.name = d.name
  /\ (r.group = d.group \/ r.group = "-" \/ d.group = "-")
  /\ (r.version = d.version \/ r.version = "-" \/ d.version = "-")

Files == 1..Len(DebFiles)

CallIdx(op, f) == { k \in 1..Len(calls) : calls[k].op = op /\ calls[k].file = f }
Deletes(f) == Cardinality(CallIdx("delete", f))
Uploads(f) == Cardinality(CallIdx("upload", f))

FileCalls(f) ==
  LET OfFile(c) == c.file = f /\ c.op \in {"delete", "upload"}
  IN  SelectSeq(calls, OfFile)

ListCalls ==
  LET IsList(c) == c.op = "list"
  IN  SelectSeq(calls, IsList)

\* processSingleFile returned normally for file f
Processed(f) ==
  \/ fileIdx > f
  \/ fileIdx = f /\ pc \in {"finish", "tasks", "runTask"}
  \/ fileIdx = f /\ pc = "done" /\ resultSet

AllProcessed == \A f \in Files : Processed(f)

\* the records of the snapshot that match file f, by position
MatchingRecords(f) ==
  { k \in 1..Len(components) : RecordMatches(components[k], DebFiles[f]) }

StaleRecords(f) ==
  { k \in MatchingRecords(f) : components[k].sha256 # DebFiles[f].sha256 }

CurrentRecords(f) ==
  { k \in MatchingRecords(f) : components[k].sha256 = DebFiles[f].sha256 }

\* a record equal to the file's descriptor field by field, fingerprint included
ExactRecords(f) ==
  { k \in 1..Len(components) :
      /\ components[k].name = DebFiles[f].name
      /\ components[k].group = DebFiles[f].group
      /\ components[k].version = DebFiles[f].version
      /\ components[k].sha256 = DebFiles[f].sha256 }

SuccessfulDelete == \E k \in 1..Len(calls) : calls[k].op = "delete" /\ calls[k].ok

\* ------------------------------------------------------------------ claims
\* C1: a file that matches no record of the snapshot gets, once processed,
\* exactly one upload call and no delete call.
C1_NoMatchOneUpload ==
  \A f \in Files :
    (Processed(f) /\ MatchingRecords(f) = {}) => (Uploads(f) = 1 /\ Deletes(f) = 0)

C1_Witness ==
  \E f \in Files :
    /\ Processed(f)
    /\ components # <<>>
    /\ MatchingRecords(f) = {}
    /\ FileCalls(f) = << Call("upload", f, 0, TRUE) >>

\* C2 as stated: a file with exactly one matching record, of a differing
\* fingerprint, gets one delete call for that record's id, then one upload
\* call, and the deletion flag is true afterwards.
C2_ReplacedFlagTrue ==
  \A f \in Files :
    (Processed(f) /\ Cardinality(MatchingRecords(f)) = 1 /\ StaleRecords(f) # {}) =>
      LET k == CHOOSE k \in MatchingRecords(f) : TRUE
          fc == FileCalls(f)
      IN  /\ Len(fc) = 2
          /\ fc[1].op = "delete" /\ fc[1].arg = components[k].id
          /\ fc[2].op = "upload"
          /\ hasDeletedComponent

\* C2 amended: one delete call for that record's id, then one upload call;
\* the deletion flag is true afterwards if that delete call returned 204.
C2_ReplacedFlagIfDeleted ==
  \A f \in Files :
    (Processed(f) /\ Cardinality(MatchingRecords(f)) = 1 /\ StaleRecords(f) # {}) =>
      LET k == CHOOSE k \in MatchingRecords(f) : TRUE
          fc == FileCalls(f)
      IN  /\ Len(fc) = 2
          /\ fc[1].op = "delete" /\ fc[1].arg = components[k].id
          /\ fc[2].op = "upload"
          /\ fc[1].ok => hasDeletedComponent

C2_Witness ==
  \E f \in Files :
    /\ Processed(f)
    /\ Cardinality(MatchingRecords(f)) = 1
    /\ StaleRecords(f) # {}
    /\ Len(FileCalls(f)) = 2
    /\ FileCalls(f)[1].ok
    /\ hasDeletedComponent

\* C3 as stated: a file whose descriptor equals a snapshot record, fingerprint
\* included, gets no delete call and no upload call, whatever else the
\* snapshot holds.
C3_ExactMatchNoCalls ==
  \A f \in Files : ExactRecords(f) # {} => (Deletes(f) = 0 /\ Uploads(f) = 0)

\* C3 amended: such a file gets no upload call, and every delete call issued
\* for it targets another record, one that matches it with a differing
\* fingerprint; when every record matching a file carries the file's
\* fingerprint, and every file has such a record, the run issues no delete
\* and no upload at all.
C3_ExactMatchNoUpload ==
  /\ \A f \in Files :
       ExactRecords(f) # {} =>
         /\ Uploads(f) = 0
         /\ \A c \in CallIdx("delete", f) :
              \E k \in StaleRecords(f) : components[k].id = calls[c].arg
  /\ (pc # "getComponents"
        /\ \A f \in Files : CurrentRecords(f) # {} /\ StaleRecords(f) = {}) =>
       \A k \in 1..Len(calls) : calls[k].op \notin {"delete", "upload"}

C3_Witness ==
  \E f \in Files :
    /\ Processed(f)
    /\ ExactRecords(f) # {}
    /\ Deletes(f) > 0
    /\ Uploads(f) = 0

\* C4 as stated: at the end of a run the index refresh was invoked, once, if
\* and only if a delete occurred during the run.
C4_RebuildIffDeleted ==
  pc = "done" => (rebuilds <= 1 /\ (rebuilds = 1 <=> SuccessfulDelete))

\* C4 amended: the index refresh is invoked at most once, only after all
\* files were processed and only if a delete call returned 204; a run that
\* ends without a fatal error invoked it if and only if a delete call
\* returned 204, and a run ended by a fatal error did not invoke it.
C4_RebuildIffDeletedAndCompleted ==
  /\ rebuilds <= 1
  /\ rebuilds = 1 =>
       (SuccessfulDelete /\ AllProcessed /\ pc \in {"tasks", "runTask", "done"})
  /\ (pc = "done" /\ ~setFailed) => (rebuilds = 1 <=> SuccessfulDelete)
  /\ (pc = "done" /\ setFailed) => rebuilds = 0

C4_Witness ==
  /\ pc = "done"
  /\ rebuilds = 1
  /\ SuccessfulDelete
  /\ Len(DebFiles) = MaxFiles

\* C5: after a failed upload no delete or upload call is issued for a later
\* file, and the run ends failed.
C5_UploadFailureAborts ==
  \A i \in 1..Len(calls) :
    (calls[i].op = "upload" /\ ~calls[i].ok) =>
      /\ \A j \in 1..Len(calls) :
           j > i => calls[j].op \notin {"delete", "upload"}
      /\ pc = "done" => (setFailed /\ ~resultSet)

\* C6: the run reports success only if every upload it attempted succeeded.
C6_SuccessOnlyIfUploadsSucceeded ==
  (resultSet /\ ~setFailed) =>
    \A k \in 1..Len(calls) : calls[k].op = "upload" => calls[k].ok

\* C7: a failed delete is not fatal: the scan of the file goes on over the
\* remaining records (every stale match gets its delete call), the file is
\* uploaded if no match has its fingerprint, and the run goes on to the next
\* file.
C7_FailedDeleteNonFatal ==
  /\ \A f \in Files :
       Processed(f) =>
         /\ \A k \in StaleRecords(f) :
              \E c \in CallIdx("delete", f) : calls[c].arg = components[k].id
         /\ CurrentRecords(f) = {} => Uploads(f) = 1
  /\ \A i \in 1..Len(calls) :
       (calls[i].op = "delete" /\ ~calls[i].ok /\ pc = "done") =>
         \/ fileIdx > calls[i].file
         \/ calls[i].file = Len(DebFiles) /\ resultSet

C7_Witness ==
  \E i \in 1..Len(calls) :
    /\ calls[i].op = "delete" /\ ~calls[i].ok
    /\ \E j \in 1..Len(calls) :
         /\ j > i
         /\ calls[j].op = "delete" /\ calls[j].file = calls[i].file
    /\ Uploads(calls[i].file) = 1
    /\ \E j \in 1..Len(calls) : calls[j].file > calls[i].file

\* C8: when the target is a single file without the .deb extension, no
\* network call is made and the run ends failed.
C8_InvalidFileNoNetwork ==
  (uploadPath = "file" /\ ~EndsWithDeb(entries[1])) =>
    /\ calls = <<>>
    /\ pc = "done" => (setFailed /\ ~resultSet)

\* C9: after a run in which every registry call succeeded, the registry holds
\* exactly one component for each local file, with the file's fingerprint.
HeldFor(f) == { c \in registry : RecordMatches(ConvertItem(c), DebFiles[f]) }

C9_ExactlyOneCopy ==
  (pc = "done" /\ resultSet /\ \A k \in 1..Len(calls) : calls[k].ok) =>
    \A f \in Files :
      /\ Cardinality(HeldFor(f)) = 1
      /\ \A c \in HeldFor(f) : c.sha256 = DebFiles[f].sha256

\* C10: with the components served as N pages, getComponents issues exactly N
\* list requests, the first without a cursor and each later one with the
\* cursor of the previous response, and returns the items of all pages.
ServerItems == Flatten(serverPages)

OrDash(v) == IF v = "" THEN "-" ELSE v

C10_Pagination ==
  /\ Len(ListCalls) <= Len(serverPages)
  /\ \A k \in 1..Len(ListCalls) :
       ListCalls[k].arg = IF k = 1 THEN NoToken ELSE k
  /\ (pc # "getComponents" /\ \A k \in 1..Len(ListCalls) : ListCalls[k].ok) =>
       /\ Len(ListCalls) = Len(serverPages)
       /\ Len(components) = Len(ServerItems)
       /\ \A k \in 1..Len(components) :
            /\ components[k].id = ServerItems[k].id
            /\ components[k].name = ServerItems[k].name
            /\ components[k].group = OrDash(ServerItems[k].group)
            /\ components[k].version = OrDash(ServerItems[k].version)
            /\ components[k].sha256 = OrDash(ServerItems[k].sha256)

C10_Witness ==
  /\ pc = "stat"
  /\ Len(serverPages) = MaxRecords
  /\ Len(ListCalls) = MaxRecords
  /\ Len(components) = MaxRecords

\* C11: the for loop treats a record as a match of the file (it marks the
\* file current or issues a delete for the record) if and only if the names
\* are equal, the groups are equal or one of them is the sentinel, and the
\* versions are equal or one of them is the sentinel; so a file with sentinel
\* group and version matches every record of its name, and a record of
\* another name never matches.
TreatedAsMatch(k) ==
  \/ \E c \in 1..Len(calls) :
       calls[c].op = "delete" /\ calls[c].file = fileIdx
         /\ calls[c].arg = components[k].id
  \/ ~needUpload /\ components[k].sha256 = DebFiles[fileIdx].sha256

C11_MatchRule ==
  (pc = "scan" /\ compIdx > 1) =>
    LET r == components[1]
        d == DebFiles[fileIdx]
    IN  /\ TreatedAsMatch(1) <=>
              /\ r.name = d.name
              /\ (r.group = d.group \/ r.group = "-" \/ d.group = "-")
              /\ (r.version = d.version \/ r.version = "-" \/ d.version = "-")
        /\ (d.group = "-" /\ d.version = "-" /\ r.name = d.name) => TreatedAsMatch(1)
        /\ r.name # d.name => ~TreatedAsMatch(1)

C11_Witness ==
  /\ pc = "scan" /\ compIdx > 1
  /\ DebFiles[fileIdx].group = "-" /\ DebFiles[fileIdx].version = "-"
  /\ components[1].group = "arm64" /\ components[1].version = "2.0"
  /\ TreatedAsMatch(1)

\* C12: when a file matches several records, every matching record with a
\* differing or absent fingerprint gets a delete call, and the file is
\* uploaded if and only if no matching record has its fingerprint, wherever
\* that record stands among the matches.
C12_AllMatchesVisited ==
  \A f \in Files :
    Processed(f) =>
      /\ \A k \in StaleRecords(f) :
           Cardinality({ c \in CallIdx("delete", f) :
                           calls[c].arg = components[k].id }) = 1
      /\ Deletes(f) = Cardinality(StaleRecords(f))
      /\ Uploads(f) = (IF CurrentRecords(f) = {} THEN 1 ELSE 0)

C12_Witness ==
  \E f \in Files :
    /\ Processed(f)
    /\ MatchingRecords(f) = {1, 2}
    /\ StaleRecords(f) = {2}
    /\ Deletes(f) = 1
    /\ Uploads(f) = 0

\* C13: the snapshot stays as listed at the start of the run: after the
\* listing it holds the listed records whatever was deleted or uploaded
\* since, a later file that matches an already deleted record gets a delete
\* call for it again, and no delete ever targets a component uploaded during
\* the run.
C13_SnapshotImmutable ==
  /\ (pc # "getComponents" /\ \A k \in 1..Len(ListCalls) : ListCalls[k].ok) =>
       /\ Len(components) = Len(ServerItems)
       /\ \A k \in 1..Len(components) : components[k].id = ServerItems[k].id
  /\ \A f \in Files :
       Processed(f) =>
         \A k \in 1..Len(ServerItems) :
           (RecordMatches(components[k], DebFiles[f])
              /\ components[k].sha256 # DebFiles[f].sha256) =>
             \E c \in CallIdx("delete", f) : calls[c].arg = ServerItems[k].id
  /\ \A c \in 1..Len(calls) :
       calls[c].op = "delete" =>
         \E k \in 1..Len(ServerItems) : calls[c].arg = ServerItems[k].id

C13_Witness ==
  \E i \in 1..Len(calls), j \in 1..Len(calls) :
    /\ i < j
    /\ calls[i].op = "delete" /\ calls[i].ok
    /\ calls[j].op = "delete" /\ calls[j].arg = calls[i].arg
    /\ calls[i].file < calls[j].file
    /\ \E u \in 1..Len(calls) :
         calls[u].op = "upload" /\ calls[u].ok /\ calls[u].file = calls[i].file

\* C14: the index refresh is never fatal: once it was attempted the run ends
\* with the result output set and without setFailed, whether the task list
\* request failed, the list held no rebuild task, or the run-task request
\* failed.
C14_RefreshNeverFatal ==
  /\ rebuilds >= 1 => ~setFailed
  /\ (pc = "done" /\ rebuilds >= 1) => resultSet
  /\ (pc = "done" /\ Len(calls) > 0 /\ calls[Len(calls)].op \in {"tasks", "run"}) =>
       (resultSet /\ ~setFailed /\ AllProcessed)

C14_Witness ==
  /\ pc = "done"
  /\ resultSet /\ ~setFailed
  /\ rebuilds = 1
  /\ calls[Len(calls)].op = "tasks"
  /\ calls[Len(calls)].ok

\* C15: when a list request fails, on whatever page, it is the last request
\* of the run: it is not retried, the run ends failed, and no delete, upload
\* or index refresh is issued.
C15_ListFailureAborts ==
  \A k \in 1..Len(calls) :
    (calls[k].op = "list" /\ ~calls[k].ok) =>
      /\ k = Len(calls)
      /\ \A j \in 1..Len(calls) : calls[j].op = "list"
      /\ pc = "done"
      /\ setFailed /\ ~resultSet
      /\ rebuilds = 0

C15_Witness ==
  /\ Len(calls) = 2
  /\ calls[1].op = "list" /\ calls[1].ok
  /\ calls[2].op = "list" /\ ~calls[2].ok
  /\ DebFiles # <<>>
  /\ pc = "done"

NoDebEntry == \A k \in 1..Len(entries) : ~entries[k].deb

NoMutation ==
  /\ \A k \in 1..Len(calls) : calls[k].op \notin {"delete", "upload"}
  /\ rebuilds = 0

\* C16 as stated: with a directory holding no .deb entry the run succeeds,
\* with no upload call, no delete call and no index refresh.
C16_EmptyRunSucceeds ==
  (uploadPath = "directory" /\ NoDebEntry) =>
    /\ NoMutation
    /\ pc = "done" => (resultSet /\ ~setFailed)

\* C16 amended: with a directory holding no .deb entry the run issues no
\* upload call, no delete call and no index refresh, and it succeeds if the
\* inventory listing succeeds; a failed list request still fails the run.
C16_EmptyRunSucceedsIfListed ==
  (uploadPath = "directory" /\ NoDebEntry) =>
    /\ NoMutation
    /\ \A k \in 1..Len(calls) : calls[k].op = "list"
    /\ pc = "done" =>
         /\ resultSet <=> \A k \in 1..Len(calls) : calls[k].ok
         /\ setFailed <=> ~resultSet

C16_Witness ==
  /\ uploadPath = "directory"
  /\ entries = << OtherEntry >>
  /\ components # <<>>
  /\ pc = "done"
  /\ resultSet /\ ~setFailed

\* C17: files are processed one after the other: the delete and upload calls
\* of a file all come before those of the next file, within a file the
\* delete calls come before the upload call, a file gets at most one upload
\* call, and every list request comes before the first delete or upload.
C17_Sequential ==
  /\ \A i \in 1..Len(calls), j \in 1..Len(calls) :
       (i < j /\ calls[i].op \in {"delete", "upload"}) =>
         /\ calls[j].op # "list"
         /\ calls[j].op \in {"delete", "upload"} =>
              /\ calls[i].file <= calls[j].file
              /\ (calls[i].op = "upload" => calls[i].file < calls[j].file)
  /\ \A f \in Files : Uploads(f) <= 1
  /\ \A c \in 1..Len(calls) :
       calls[c].op \in {"delete", "upload"} =>
         /\ calls[c].file \in Files
         /\ calls[c].file <= fileIdx

C17_Witness ==
  /\ Len(calls) = 5
  /\ calls[1].op = "list"
  /\ calls[2].op = "delete" /\ calls[2].file = 1
  /\ calls[3].op = "upload" /\ calls[3].file = 1
  /\ calls[4].op = "delete" /\ calls[4].file = 2
  /\ calls[5].op = "upload" /\ calls[5].file = 2

\* C18: every delete call targets the id of a snapshot record that matches
\* the file being processed and whose fingerprint differs from the file's;
\* a record matching no local file, or carrying the fingerprint of the file
\* being processed, is never deleted for that file.
DeleteTargets(c) == { k \in 1..Len(components) : components[k].id = calls[c].arg }

C18_DeleteOnlyStaleMatches ==
  \A c \in 1..Len(calls) :
    calls[c].op = "delete" =>
      /\ calls[c].file \in Files
      /\ DeleteTargets(c) # {}
      /\ \A k \in DeleteTargets(c) :
           /\ RecordMatches(components[k], DebFiles[calls[c].file])
           /\ components[k].sha256 # DebFiles[calls[c].file].sha256

C18_Witness ==
  /\ Len(components) = 2
  /\ \E f \in Files, k \in 1..2 :
       /\ Processed(f)
       /\ k \in StaleRecords(f)
       /\ (3 - k) \notin StaleRecords(f)
       /\ \E c \in CallIdx("delete", f) : calls[c].arg = components[k].id
       /\ \A c \in 1..Len(calls) :
            calls[c].op = "delete" => calls[c].arg # components[3 - k].id

\* C19: hasDeletedComponent is false when the run starts; a step changes it
\* only from false to true, and only a step that is a delete request answered
\* with 204; a failed delete, a list, an upload and the index refresh leave it
\* as it is, and it is never set back to false.
FlagStep ==
  /\ hasDeletedComponent => hasDeletedComponent'
  /\ hasDeletedComponent' # hasDeletedComponent <=>
       /\ ~hasDeletedComponent
       /\ Len(calls') = Len(calls) + 1
       /\ calls'[Len(calls')].op = "delete"
       /\ calls'[Len(calls')].ok

C19_FlagOnlySetBy204Delete == ~hasDeletedComponent /\ [][FlagStep]_vars

C19_Witness ==
  /\ pc = "done"
  /\ hasDeletedComponent
  /\ rebuilds = 1
  /\ \E i \in 1..Len(calls), j \in 1..Len(calls), u \in 1..Len(calls) :
       /\ calls[i].op = "delete" /\ ~calls[i].ok
       /\ calls[j].op = "delete" /\ calls[j].ok
       /\ i < j /\ j < u
       /\ calls[u].op = "upload"
       /\ \A k \in 1..(j - 1) : ~(calls[k].op = "delete" /\ calls[k].ok)

\* C20: with a listing that ends and calls that all return, every run reaches
\* its end, nothing runs after it, and at the end exactly one of setFailed
\* and the result output has happened; neither happens before the end.
C20_TerminatesInOneStatus ==
  /\ <>(pc = "done")
  /\ [](pc = "done" => ~ENABLED Next)
  /\ [](pc = "done" => (setFailed <=> ~resultSet))
  /\ [](pc # "done" => (~setFailed /\ ~resultSet))

C20_Witness ==
  /\ pc = "done"
  /\ resultSet /\ ~setFailed
  /\ Len(ListCalls) = 2
  /\ Len(DebFiles) = 2
  /\ \A f \in Files : Deletes(f) + Uploads(f) >= 1
====
